---- MODULE Spec2Model ----
(***************************************************************************)
(* Rue Organics: order tracking (src/pages/TrackOrder.tsx), checkout       *)
(* (src/pages/Checkout.tsx) and the cart with tiered pricing               *)
(* (src/contexts/CartContext in AuthContext.tsx, src/pages/Cart.tsx).      *)
(*                                                                         *)
(* Encoding of JavaScript values:                                          *)
(*   - an optional value (Order | null, a query's data) is a sequence of   *)
(*     length 0 or 1;                                                      *)
(*   - an ISO timestamp is a positive integer (ISO strings of one format   *)
(*     order like the instants they denote), the empty string '' in a      *)
(*     timestamp field is EmptyTime;                                       *)
(*   - a field a decoded JSON object does not carry is Absent (strings)    *)
(*     or AbsentTime (timestamps); the JSON booleans are JTrue and JFalse. *)
(***************************************************************************)
EXTENDS Integers, Sequences, FiniteSets, Bags, TLC

VARIABLES
    stored,        \* the row of table orders with id = orderId
    user,          \* useAuth().user?.id (session is non-null exactly when user is)
    order,         \* useState<Order | null>: the local order
    fetchedOrder,  \* useQuery data: the last successfully fetched order
    queryError,    \* useQuery error: message of the last failed fetch, or NoError
    fetching,      \* a run of queryFn is due (mount, refetch())
    inflight,      \* updates sent to the store whose await has not settled
    now,           \* the clock read by new Date()
    alerts,        \* the last alert() shown
    lastOp,        \* the last handler event and what it did
    calls,         \* number of updates the view has sent
    cart,          \* useReducer(cartReducer): the cart lines
    subtotal,      \* the subtotal the provider computed at its last render
    views,         \* the mounted pages: "track" (TrackOrder), "orders" (Orders)
    orderId,       \* useParams().orderId of the TrackOrder route
    channels,      \* the channels of the realtime client (a bag)
    feedDue,       \* a change of the tracked row was signalled, callback not yet run
    rawPrice,      \* the price field of the selected variant on ProductDetail
    numericPrice,  \* what getNumericPriceForCart returned for it
    orderItem,     \* TrackOrder queryFn: the prices read for one order item
                   \* and the price the enrichment gave it
    checkout,      \* Checkout useState: discountCode, appliedDiscount, deliveryInfo
    placedOrders,  \* the rows Checkout inserted into table orders
    notifications  \* the rows Checkout inserted into table notifications

vars == <<stored, user, order, fetchedOrder, queryError, fetching, inflight,
          now, alerts, lastOp, calls, cart, subtotal, views, orderId,
          channels, feedDue, rawPrice, numericPrice, orderItem, checkout,
          placedOrders, notifications>>

trackVars == <<stored, user, order, fetchedOrder, queryError, fetching,
               inflight, now, alerts, lastOp, calls>>
cartVars == <<cart, subtotal>>
dataVars == <<stored, user, order, fetchedOrder, queryError, fetching,
              inflight, now, alerts, calls>>
syncVars == <<views, orderId, channels, feedDue>>
priceVars == <<rawPrice, numericPrice>>
enrichVars == <<orderItem>>
checkoutVars == <<checkout, placedOrders, notifications>>

-----------------------------------------------------------------------------
(* Bounds *)

MaxLen == 2          \* longest stored stage list the parser is given
MaxClock == 2        \* last instant of the clock
MaxInflight == 2     \* most updates awaiting the store at once
MaxCalls == 2        \* most updates one run of the view sends
MaxQty == 10         \* largest quantity of a cart line and of a payload
MaxTiers == 2        \* longest tier list of a product

-----------------------------------------------------------------------------
(* JSON values *)

Absent == "<undefined>"
JTrue == "<true>"
JFalse == "<false>"
EmptyTime == 0
AbsentTime == -1

NoUser == "<null>"
NoError == "<null>"
NoAlert == "<none>"

Users == {"u1", "u2"}

\* JavaScript truthiness of a string-or-undefined / boolean-or-undefined field
Truthy(v) == v \notin {Absent, "", JFalse}

\* JavaScript truthiness of a timestamp field (undefined and '' are falsy)
TruthyTime(t) == t \notin {AbsentTime, EmptyTime}

\* a || b on strings
Or(a, b) == IF Truthy(a) THEN a ELSE b

\* An entry of a decoded stages array: a JSON object with optional fields.
Entry(n, s, a, i, t, c) ==
    [name |-> n, stage |-> s, address |-> a, instructions |-> i,
     timestamp |-> t, completed |-> c]

\* The values data.stages can hold:
\*   null    the column is null / undefined
\*   empty   the empty string
\*   garbage a string that is not JSON
\*   object  JSON text of a single object (not an array)
\*   list    JSON text of an array of objects
Raw(k, es) == [kind |-> k, entries |-> es]

-----------------------------------------------------------------------------
(* Stage parsing: TrackOrder queryFn *)

StageNames ==
    <<"Order Placed", "Payment Pending", "Processing", "Shipped", "Delivered",
      "Confirmed Received">>

Stage(n, c, t) == [name |-> n, completed |-> c, timestamp |-> t]

\* The literal default workflow of lines 143-150 and 168-175.
DefaultStages(created_at) ==
    [i \in 1..6 |-> IF i = 1 THEN Stage(StageNames[i], TRUE, created_at)
                            ELSE Stage(StageNames[i], FALSE, EmptyTime)]

\* Conform without the fallback to the entry's stage field.
ConformNameOnly(s) ==
    Stage(Or(s.name, "Unknown"),
          Truthy(s.completed),
          IF TruthyTime(s.timestamp) THEN s.timestamp ELSE EmptyTime)

\* line 160-164: one entry made to conform to interface Stage
Conform(s) ==
    Stage(Or(s.name, Or(s.stage, "Unknown")),
          Truthy(s.completed),
          IF TruthyTime(s.timestamp) THEN s.timestamp ELSE EmptyTime)

\* The default workflow as the object literals the map of line 160 receives.
DefaultEntries(created_at) ==
    [i \in 1..6 |->
        Entry(StageNames[i], Absent, Absent, Absent,
              IF i = 1 THEN created_at ELSE EmptyTime,
              IF i = 1 THEN JTrue ELSE JFalse)]

\* parsedStages.find(s => s.address): index of the first entry with a truthy
\* address, 0 when there is none
FindAddress(es) ==
    IF \E i \in 1..Len(es) : Truthy(es[i].address)
    THEN CHOOSE i \in 1..Len(es) :
            /\ Truthy(es[i].address)
            /\ \A j \in 1..(i - 1) : ~Truthy(es[j].address)
    ELSE 0

Parsed(st, addr, ins, fellBack) ==
    [stages |-> st, delivery_address |-> addr, instructions |-> ins,
     caught |-> fellBack]

\* line 139: the decoded value is the single delivery record
IsSingleDelivery(es) == Len(es) = 1 /\ es[1].stage = "delivery"

\* ParseList without the branch of line 139: the single delivery record is
\* kept as the stage list.
ParseListNoDeliveryBranch(es, created_at) ==
    LET d == FindAddress(es) IN
    Parsed([i \in 1..Len(es) |-> Conform(es[i])],
           IF d = 0 THEN "" ELSE Or(es[d].address, ""),
           IF d = 0 THEN "" ELSE Or(es[d].instructions, ""),
           FALSE)

\* lines 132-176 on a decoded array of objects
ParseList(es, created_at) ==
    IF IsSingleDelivery(es)
    THEN Parsed([i \in 1..6 |-> Conform(DefaultEntries(created_at)[i])],
                Or(es[1].address, ""), Or(es[1].instructions, ""), FALSE)
    ELSE LET d == FindAddress(es) IN
         Parsed([i \in 1..Len(es) |-> Conform(es[i])],
                IF d = 0 THEN "" ELSE Or(es[d].address, ""),
                IF d = 0 THEN "" ELSE Or(es[d].instructions, ""),
                FALSE)

\* ParseStages whose catch falls back to an empty list, as the catch of the
\* items does (line 104).
ParseStagesEmptyFallback(raw, created_at) ==
    CASE raw.kind \in {"null", "empty"} -> ParseList(<<>>, created_at)
      [] raw.kind = "list" -> ParseList(raw.entries, created_at)
      [] OTHER -> Parsed(<<>>, "", "", TRUE)

\* lines 132-176: JSON.parse(data.stages || '[]') and the three-way policy.
\* A string that is not JSON makes JSON.parse throw; a decoded object that is
\* not an array has no length and no find, so line 153 throws; both land in
\* the catch of line 165.
ParseStages(raw, created_at) ==
    CASE raw.kind \in {"null", "empty"} -> ParseList(<<>>, created_at)
      [] raw.kind = "list" -> ParseList(raw.entries, created_at)
      [] OTHER -> Parsed(DefaultStages(created_at), "", "", TRUE)

\* A serialisation that leaves the timestamp of every stage out.
StringifyNoTimestamp(stages) ==
    Raw("list",
        [i \in 1..Len(stages) |->
            Entry(stages[i].name, Absent, Absent, Absent, AbsentTime,
                  IF stages[i].completed THEN JTrue ELSE JFalse)])

\* JSON.stringify of a Stage[] (lines 229, 252): every stage carries exactly
\* name, timestamp and completed.
Stringify(stages) ==
    Raw("list",
        [i \in 1..Len(stages) |->
            Entry(stages[i].name, Absent, Absent, Absent, stages[i].timestamp,
                  IF stages[i].completed THEN JTrue ELSE JFalse)])

-----------------------------------------------------------------------------
(* The stored row and the local order *)

Row(uid, st, raw, created_at) ==
    [user_id |-> uid, status |-> st, stages |-> raw, created_at |-> created_at]

\* The object the queryFn returns (lines 180-186); items are left out.
Order(data, p) ==
    [user_id |-> data.user_id, status |-> data.status, stages |-> p.stages,
     created_at |-> data.created_at, delivery_address |-> p.delivery_address,
     instructions |-> p.instructions]

Addresses == {"X"}
Instructions == {"", "I"}

\* Checkout handlePlaceOrder, lines 140-142 and 150: the stages value of a
\* new order (its status field 'pending' is read by nothing and is left out).
CheckoutStages(address, instructions) ==
    Raw("list", <<Entry(Absent, "delivery", address, instructions, AbsentTime,
                        Absent)>>)

\* Checkout handlePlaceOrder, lines 143-151: the row inserted for user uid.
InsertedOrder(uid, address, instructions, created_at) ==
    Row(uid, "Order Placed (Making Order)",
        CheckoutStages(address, instructions), created_at)

NoOp == [op |-> "none", outcome |-> "none"]
Event(o, out) == [op |-> o, outcome |-> out]

\* order.stages.findIndex(s => !s.completed), 1-based; 0 when there is none
FirstIncomplete(stages) ==
    IF \E i \in 1..Len(stages) : ~stages[i].completed
    THEN CHOOSE i \in 1..Len(stages) :
            /\ ~stages[i].completed
            /\ \A j \in 1..(i - 1) : stages[j].completed
    ELSE 0

-----------------------------------------------------------------------------
(* The change-feed subscriptions: TrackOrder lines 199-216, Orders          *)
(* (Notifications.tsx) lines 316-333                                         *)

OrderIds == {"o1", "o2"}

\* The id of the one row of table orders the model holds in stored.
StoredId == "o1"

Channel(topic, filter) == [topic |-> topic, filter |-> filter]

\* supabase.channel(`order-${orderId}`) with filter `id=eq.${orderId}`
OrderChannel(id) == Channel(<<"order", id>>, <<"id", id>>)

\* supabase.channel('user-orders') with filter `user_id=eq.${user.id}`
UserOrdersChannel(u) == Channel(<<"user-orders">>, <<"user_id", u>>)

\* What a run of the TrackOrder effect subscribes (lines 200-211): nothing
\* when the page is not mounted or there is no session.
TrackSub(vs, id, u) ==
    IF "track" \in vs /\ u # NoUser THEN SetToBag({OrderChannel(id)})
    ELSE EmptyBag

\* What a run of the Orders effect subscribes (Notifications.tsx lines
\* 317-329): nothing when the page is not mounted or there is no user.
ListSub(vs, u) ==
    IF "orders" \in vs /\ u # NoUser THEN SetToBag({UserOrdersChannel(u)})
    ELSE EmptyBag

\* An effect whose cleanup does not remove the channel it subscribed.
RunEffectsNoCleanup(chs, vs, id, u, vs2, id2, u2) ==
    (chs (+) TrackSub(vs2, id2, u2)) (+) ListSub(vs2, u2)

\* React re-running both effects when their dependencies go from (vs, id, u)
\* to (vs2, id2, u2): the cleanup of the last run removes the channel that
\* run created (lines 213-215, 330-332), then the new run subscribes.
RunEffects(chs, vs, id, u, vs2, id2, u2) ==
    (((chs (-) TrackSub(vs, id, u)) (+) TrackSub(vs2, id2, u2))
        (-) ListSub(vs, u)) (+) ListSub(vs2, u2)

\* The realtime client holds a channel on the row kept in stored.
Subscribed(chs) == BagIn(OrderChannel(StoredId), chs)

-----------------------------------------------------------------------------
(* TrackOrder: the query *)

\* queryFn (lines 62-187) with the setOrder effect (lines 191-196).  ok is
\* whether the select of line 77 came back without fetchError; .single()
\* answers with an error when no row has the id.  On a throw useQuery keeps
\* the data of the last success and sets error.
Fetch ==
    /\ fetching
    /\ fetching' = FALSE
    /\ \E ok \in BOOLEAN :
        IF user = NoUser
        THEN /\ queryError' = "Please sign in"
             /\ lastOp' = Event("fetch", "signin")
             /\ UNCHANGED <<order, fetchedOrder>>
        ELSE IF ~ok \/ orderId # StoredId
        THEN /\ queryError' = "fetchError"
             /\ lastOp' = Event("fetch", "fetchError")
             /\ UNCHANGED <<order, fetchedOrder>>
        ELSE IF stored.user_id # user
        THEN /\ queryError' = "Access denied"
             /\ lastOp' = Event("fetch", "denied")
             /\ UNCHANGED <<order, fetchedOrder>>
        ELSE LET o == Order(stored, ParseStages(stored.stages, stored.created_at))
             IN /\ fetchedOrder' = <<o>>
                /\ order' = <<o>>
                /\ queryError' = NoError
                /\ lastOp' = Event("fetch", "fetched")
    /\ UNCHANGED <<stored, user, inflight, now, alerts, calls, cartVars, priceVars,
                   enrichVars, checkoutVars,
                   syncVars>>

\* AuthProvider onAuthStateChange (AuthContext.tsx lines 41-48): the session
\* changes under the mounted view (sign-out, sign-in in another tab).
AuthChange ==
    /\ \E u \in Users \cup {NoUser} : u # user /\ user' = u
    /\ channels' = RunEffects(channels, views, orderId, user,
                              views, orderId, user')
    /\ feedDue' = FALSE
    /\ UNCHANGED <<stored, order, fetchedOrder, queryError, fetching, inflight,
                   now, alerts, lastOp, calls, cartVars, priceVars,
                   enrichVars, checkoutVars, views,
                   orderId>>

\* Time passes between two reads of new Date().
Tick ==
    /\ now < MaxClock
    /\ now' = now + 1
    /\ UNCHANGED <<stored, user, order, fetchedOrder, queryError, fetching,
                   inflight, alerts, lastOp, calls, cartVars, priceVars,
                   enrichVars, checkoutVars,
                   syncVars>>

-----------------------------------------------------------------------------
(* TrackOrder: the transitions *)

\* An update sent to the store: the values of .update({status, stages}) and
\* of .eq('user_id', user.id).
Request(o, uid, st, stages) ==
    [op |-> o, uid |-> uid, status |-> st, stages |-> stages]

\* Complete that sets the flag and keeps the timestamp the stage had.
CompleteKeepTime(stages, i, t) ==
    [stages EXCEPT ![i] = Stage(stages[i].name, TRUE, stages[i].timestamp)]

\* lines 223-224, 245-247: a copy of stages with stage i completed at instant t
Complete(stages, i, t) ==
    [stages EXCEPT ![i] = Stage(stages[i].name, TRUE, t)]

\* Room for one more update within the bounds of the model.
Budget == Len(inflight) < MaxInflight /\ calls < MaxCalls

\* advanceStage without the currentIndex > -1 test of line 221: on a terminal
\* order the write to index -1 is dropped by JSON.stringify and the status
\* becomes the name of stage 0.
AdvanceStageNoTerminalTest ==
    /\ order # <<>> /\ user # NoUser
    /\ LET stages == order[1].stages
           currentIndex == FirstIncomplete(stages)
       IN /\ currentIndex < Len(stages)
          /\ Budget
          /\ inflight' = Append(inflight,
                 Request("advanceStage", user, stages[currentIndex + 1].name,
                         IF currentIndex = 0 THEN stages
                         ELSE [stages EXCEPT ![currentIndex] =
                                  Stage(stages[currentIndex].name, TRUE, now)]))
          /\ calls' = calls + 1
          /\ lastOp' = Event("advanceStage", "issued")
    /\ UNCHANGED <<stored, user, order, fetchedOrder, queryError, fetching,
                   now, alerts, cartVars, priceVars, enrichVars, checkoutVars,
                   syncVars>>

\* advanceStage up to its await (lines 218-232)
AdvanceStage ==
    /\ IF order = <<>> \/ user = NoUser
       THEN /\ lastOp' = Event("advanceStage", "returned")
            /\ UNCHANGED <<inflight, calls>>
       ELSE LET stages == order[1].stages
                currentIndex == FirstIncomplete(stages)
            IN IF currentIndex > 0 /\ currentIndex < Len(stages)
               THEN LET req == Request("advanceStage", user,
                                       stages[currentIndex + 1].name,
                                       Complete(stages, currentIndex, now))
                    IN /\ Budget
                       /\ inflight' = Append(inflight, req)
                       /\ calls' = calls + 1
                       /\ lastOp' = Event("advanceStage", "issued")
               ELSE /\ lastOp' = Event("advanceStage", "returned")
                    /\ UNCHANGED <<inflight, calls>>
    /\ UNCHANGED <<stored, user, order, fetchedOrder, queryError, fetching,
                   now, alerts, cartVars, priceVars, enrichVars, checkoutVars,
                   syncVars>>

\* confirmReceipt up to its await (lines 242-255).  On an empty stage list
\* order.stages[-1] is undefined and reading .completed throws.
ConfirmReceipt ==
    /\ IF order = <<>> \/ user = NoUser
       THEN /\ lastOp' = Event("confirmReceipt", "returned")
            /\ UNCHANGED <<inflight, calls>>
       ELSE LET stages == order[1].stages
                lastIndex == Len(stages)
            IN IF lastIndex = 0
               THEN /\ lastOp' = Event("confirmReceipt", "threw")
                    /\ UNCHANGED <<inflight, calls>>
               ELSE IF stages[lastIndex].completed
               THEN /\ lastOp' = Event("confirmReceipt", "returned")
                    /\ UNCHANGED <<inflight, calls>>
               ELSE LET req == Request("confirmReceipt", user,
                                       "Confirmed Received",
                                       Complete(stages, lastIndex, now))
                    IN /\ Budget
                       /\ inflight' = Append(inflight, req)
                       /\ calls' = calls + 1
                       /\ lastOp' = Event("confirmReceipt", "issued")
    /\ UNCHANGED <<stored, user, order, fetchedOrder, queryError, fetching,
                   now, alerts, cartVars, priceVars, enrichVars, checkoutVars,
                   syncVars>>

Remove(seq, k) == [i \in 1..(Len(seq) - 1) |-> IF i < k THEN seq[i] ELSE seq[i + 1]]

\* An update without the .eq('user_id', user.id) filter.
StoreUpdateAnyUser(row, req) ==
    [row EXCEPT !.status = req.status, !.stages = Stringify(req.stages)]

\* The store's update ... .eq('id', orderId).eq('user_id', user.id): the row
\* is written when its user_id is the one the request names, and no row is
\* touched (without error) otherwise.
StoreUpdate(row, req) ==
    IF row.user_id = req.uid
    THEN [row EXCEPT !.status = req.status, !.stages = Stringify(req.stages)]
    ELSE row

FailureAlert(o) ==
    IF o = "advanceStage"
    THEN "Failed to advance stage. Please contact support."
    ELSE "Failed to confirm receipt. Please contact support."

\* alert shown after a successful update (line 260; advanceStage shows none)
SuccessAlert(o, was) ==
    IF o = "confirmReceipt" THEN "Order confirmed as received! Thank you."
    ELSE was

\* Settle whose error branch only logs: no alert is shown.
SettleSilentFailure ==
    \E k \in 1..Len(inflight), rejected \in BOOLEAN :
        LET req == inflight[k] IN
        /\ inflight' = Remove(inflight, k)
        /\ IF rejected
           THEN /\ lastOp' = Event(req.op, "rejected")
                /\ UNCHANGED <<stored, fetching, alerts, feedDue>>
           ELSE /\ stored' = StoreUpdate(stored, req)
                /\ alerts' = SuccessAlert(req.op, alerts)
                /\ fetching' = TRUE
                /\ lastOp' = Event(req.op,
                                   IF stored.user_id = req.uid THEN "updated"
                                   ELSE "nomatch")
                /\ feedDue' = (feedDue \/ (stored.user_id = req.uid
                                              /\ Subscribed(channels)))
        /\ UNCHANGED <<user, order, fetchedOrder, queryError, now, calls,
                       cartVars, priceVars,
                       enrichVars, checkoutVars, views, orderId, channels>>

\* An awaited update settles and the handler resumes (lines 233-238,
\* 256-262).  rejected is whether the store answered with an error.  A row
\* the update wrote is signalled on the channel subscribed to it.
Settle ==
    \E k \in 1..Len(inflight), rejected \in BOOLEAN :
        LET req == inflight[k] IN
        /\ inflight' = Remove(inflight, k)
        /\ IF rejected
           THEN /\ alerts' = FailureAlert(req.op)
                /\ lastOp' = Event(req.op, "rejected")
                /\ UNCHANGED <<stored, fetching, feedDue>>
           ELSE /\ stored' = StoreUpdate(stored, req)
                /\ alerts' = SuccessAlert(req.op, alerts)
                /\ fetching' = TRUE
                /\ lastOp' = Event(req.op,
                                   IF stored.user_id = req.uid THEN "updated"
                                   ELSE "nomatch")
                /\ feedDue' = (feedDue \/ (stored.user_id = req.uid
                                              /\ Subscribed(channels)))
        /\ UNCHANGED <<user, order, fetchedOrder, queryError, now, calls,
                       cartVars, priceVars,
                       enrichVars, checkoutVars, views, orderId, channels>>

-----------------------------------------------------------------------------
(* Specification of the tracking view, opened by a signed-in user on an     *)
(* order of u1: the row as Checkout inserted it, or as earlier runs of the  *)
(* view left it after completing the first k stages in order.               *)

CartIdle == cart = <<>> /\ subtotal = 0

\* ProductDetail is showing no price.
PriceIdle == rawPrice = [kind |-> "absent"] /\ numericPrice = <<>>

\* TrackOrder has read no item of the order.
NoItem == [read |-> FALSE]
EnrichIdle == orderItem = NoItem

\* Checkout as it mounts (lines 37-41); nothing has been inserted.
MountedCheckout ==
    [discountCode |-> <<>>, appliedDiscount |-> [mant |-> 0, exp |-> 0],
     deliveryInfo |-> [address |-> "", instructions |-> ""]]
CheckoutIdle ==
    /\ checkout = MountedCheckout
    /\ placedOrders = <<>>
    /\ notifications = 0

\* TrackOrder is mounted on the route of the stored order and its effect of
\* lines 199-216 has run.
Tracking ==
    /\ views = {"track"}
    /\ orderId = StoredId
    /\ channels = TrackSub(views, orderId, user)
    /\ feedDue = FALSE

\* The default workflow with its first k stages completed at created_at.
Progressed(k, created_at) ==
    [i \in 1..6 |-> IF i <= k THEN Stage(StageNames[i], TRUE, created_at)
                            ELSE Stage(StageNames[i], FALSE, EmptyTime)]

\* The row after the updates of lines 225-232 (k < 6) and 248-255 (k = 6)
\* that complete stages 2..k of a new order.
ProgressedRow(k, created_at) ==
    Row("u1", IF k < 6 THEN StageNames[k + 1] ELSE "Confirmed Received",
        Stringify(Progressed(k, created_at)), created_at)

InitialRows ==
    {InsertedOrder("u1", a, i, 1) : a \in Addresses, i \in Instructions}
    \cup {ProgressedRow(k, 1) : k \in 2..6}

Init ==
    /\ stored \in InitialRows
    /\ user \in Users
    /\ order = <<>>
    /\ fetchedOrder = <<>>
    /\ queryError = NoError
    /\ fetching = TRUE
    /\ inflight = <<>>
    /\ now = 1
    /\ alerts = NoAlert
    /\ lastOp = NoOp
    /\ calls = 0
    /\ Tracking
    /\ CartIdle
    /\ PriceIdle
    /\ EnrichIdle
    /\ CheckoutIdle

Next ==
    \/ Fetch
    \/ AuthChange
    \/ Tick
    \/ AdvanceStage
    \/ ConfirmReceipt
    \/ Settle

Spec == Init /\ [][Next]_vars

-----------------------------------------------------------------------------
(* Specification of the parser: the view is opened on a row whose stages    *)
(* column holds any of the shapes data.stages can have.                     *)

EntryNames == {Absent, "", "Shipped"}
EntryStages == {Absent, "delivery"}
EntryDelivery == {<<Absent, Absent>>, <<"X", "">>, <<"X", "I">>, <<"", "I">>}
EntryProgress == {<<AbsentTime, Absent>>, <<1, JTrue>>, <<EmptyTime, JFalse>>,
                  <<2, "yes">>}

Entries ==
    {Entry(n, s, d[1], d[2], p[1], p[2]) :
        n \in EntryNames, s \in EntryStages, d \in EntryDelivery,
        p \in EntryProgress}

EntryLists == UNION {[1..n -> Entries] : n \in 0..MaxLen}

RawInputs ==
    {Raw("null", <<>>), Raw("empty", <<>>), Raw("garbage", <<>>)}
    \cup {Raw("object", <<e>>) : e \in Entries}
    \cup {Raw("list", es) : es \in EntryLists}

InitParse ==
    /\ \E raw \in RawInputs, t \in 1..2 :
          stored = Row("u1", "Order Placed (Making Order)", raw, t)
    /\ user = "u1"
    /\ order = <<>>
    /\ fetchedOrder = <<>>
    /\ queryError = NoError
    /\ fetching = TRUE
    /\ inflight = <<>>
    /\ now = 2
    /\ alerts = NoAlert
    /\ lastOp = NoOp
    /\ calls = 0
    /\ Tracking
    /\ CartIdle
    /\ PriceIdle
    /\ EnrichIdle
    /\ CheckoutIdle

NextParse == Fetch

SpecParse == InitParse /\ [][NextParse]_vars

-----------------------------------------------------------------------------
(* The cart: cartReducer, getUnitPrice and the subtotal (CartProvider) *)

Tier(m, p) == [min_quantity |-> m, price |-> p]

CartItem(id, price, q, tiers, variant) ==
    [id |-> id, price |-> price, quantity |-> q, pricing_tiers |-> tiers,
     variant_id |-> variant]

\* pricing_tiers.find(t => item.quantity >= t.min_quantity): index of the
\* first tier, in list order, that the quantity reaches; 0 when there is none
FindTier(item) ==
    LET ts == item.pricing_tiers IN
    IF \E i \in 1..Len(ts) : item.quantity >= ts[i].min_quantity
    THEN CHOOSE i \in 1..Len(ts) :
            /\ item.quantity >= ts[i].min_quantity
            /\ \A j \in 1..(i - 1) : item.quantity < ts[j].min_quantity
    ELSE 0

\* getUnitPrice (AuthContext.tsx lines 147-153, Cart.tsx lines 29-35)
getUnitPrice(item) ==
    IF Len(item.pricing_tiers) = 0
    THEN item.price
    ELSE LET t == FindTier(item) IN
         IF t # 0 THEN item.pricing_tiers[t].price ELSE item.price

\* cart.reduce((sum, item) => sum + getUnitPrice(item) * item.quantity, 0)
RECURSIVE Subtotal(_)
Subtotal(items) ==
    IF Len(items) = 0 THEN 0
    ELSE Subtotal(SubSeq(items, 1, Len(items) - 1))
         + getUnitPrice(items[Len(items)]) * items[Len(items)].quantity

Max(a, b) == IF a >= b THEN a ELSE b

\* A reducer whose UPDATE_QUANTITY stores the payload quantity as it is
\* (no Math.max): the filter of line 137 then drops the line at 0 or below.
cartReducerNoClamp(state, action) ==
    CASE action.type = "ADD_ITEM" ->
            IF \E i \in 1..Len(state) : state[i].id = action.payload.id
            THEN [i \in 1..Len(state) |->
                    IF state[i].id = action.payload.id
                    THEN [state[i] EXCEPT
                            !.quantity = state[i].quantity + action.payload.quantity]
                    ELSE state[i]]
            ELSE Append(state, action.payload)
      [] action.type = "UPDATE_QUANTITY" ->
            LET mapped == [i \in 1..Len(state) |->
                            IF state[i].id = action.payload.id
                            THEN [state[i] EXCEPT
                                    !.quantity = action.payload.quantity]
                            ELSE state[i]]
                positive(item) == item.quantity > 0
            IN SelectSeq(mapped, positive)
      [] action.type = "REMOVE_ITEM" ->
            LET other(item) == item.id # action.payload.id
            IN SelectSeq(state, other)
      [] action.type = "CLEAR_CART" -> <<>>
      [] OTHER -> state

\* A reducer whose ADD_ITEM for an id already in the cart replaces the line
\* by the payload with the quantities added.
cartReducerReplaceLine(state, action) ==
    CASE action.type = "ADD_ITEM" ->
            IF \E i \in 1..Len(state) : state[i].id = action.payload.id
            THEN [i \in 1..Len(state) |->
                    IF state[i].id = action.payload.id
                    THEN [action.payload EXCEPT
                            !.quantity = state[i].quantity + action.payload.quantity]
                    ELSE state[i]]
            ELSE Append(state, action.payload)
      [] action.type = "UPDATE_QUANTITY" ->
            LET mapped == [i \in 1..Len(state) |->
                            IF state[i].id = action.payload.id
                            THEN [state[i] EXCEPT
                                    !.quantity = Max(1, action.payload.quantity)]
                            ELSE state[i]]
                positive(item) == item.quantity > 0
            IN SelectSeq(mapped, positive)
      [] action.type = "REMOVE_ITEM" ->
            LET other(item) == item.id # action.payload.id
            IN SelectSeq(state, other)
      [] action.type = "CLEAR_CART" -> <<>>
      [] OTHER -> state

\* cartReducer (AuthContext.tsx lines 119-144)
cartReducer(state, action) ==
    CASE action.type = "ADD_ITEM" ->
            IF \E i \in 1..Len(state) : state[i].id = action.payload.id
            THEN [i \in 1..Len(state) |->
                    IF state[i].id = action.payload.id
                    THEN [state[i] EXCEPT
                            !.quantity = state[i].quantity + action.payload.quantity]
                    ELSE state[i]]
            ELSE Append(state, action.payload)
      [] action.type = "UPDATE_QUANTITY" ->
            LET mapped == [i \in 1..Len(state) |->
                            IF state[i].id = action.payload.id
                            THEN [state[i] EXCEPT
                                    !.quantity = Max(1, action.payload.quantity)]
                            ELSE state[i]]
                positive(item) == item.quantity > 0
            IN SelectSeq(mapped, positive)
      [] action.type = "REMOVE_ITEM" ->
            LET other(item) == item.id # action.payload.id
            IN SelectSeq(state, other)
      [] action.type = "CLEAR_CART" -> <<>>
      [] OTHER -> state

ProductIds == {"p1", "p2"}
VariantIds == {"v1", "v2"}
BasePrices == {100}

\* The tiers a product can carry and the tier lists of the catalog: every
\* list is sorted by min_quantity, ascending, without duplicates.
TierSet == {Tier(2, 95), Tier(5, 90), Tier(10, 80)}
TierLists ==
    {ts \in UNION {[1..n -> TierSet] : n \in 0..MaxTiers} :
        \A i \in 1..(Len(ts) - 1) : ts[i].min_quantity < ts[i + 1].min_quantity}

\* The quantity of the line with this id, 0 when the cart has none.
QuantityOf(id) ==
    IF \E i \in 1..Len(cart) : cart[i].id = id
    THEN cart[CHOOSE i \in 1..Len(cart) : cart[i].id = id].quantity
    ELSE 0

\* addItem (lines 194-196) with the payload ProductDetail handleAddToCart
\* builds (ProductDetail.tsx lines 180-189); the render that follows the
\* dispatch recomputes the subtotal (lines 215-218).
AddItem ==
    \E id \in ProductIds, v \in VariantIds, ts \in TierLists, q \in 1..MaxQty,
       price \in BasePrices :
        /\ QuantityOf(id) + q <= MaxQty
        /\ cart' = cartReducer(cart, [type |-> "ADD_ITEM",
                                      payload |-> CartItem(id, price, q, ts, v)])
        /\ subtotal' = Subtotal(cart')
        /\ UNCHANGED <<trackVars, syncVars, priceVars, enrichVars,
                   checkoutVars>>

\* updateQuantity (lines 198-200)
UpdateQuantity ==
    \E id \in ProductIds, q \in (0 - 1)..MaxQty :
        /\ cart' = cartReducer(cart, [type |-> "UPDATE_QUANTITY",
                                      payload |-> [id |-> id, quantity |-> q]])
        /\ subtotal' = Subtotal(cart')
        /\ UNCHANGED <<trackVars, syncVars, priceVars, enrichVars,
                   checkoutVars>>

\* removeItem (lines 202-204)
RemoveItem ==
    \E id \in ProductIds :
        /\ cart' = cartReducer(cart, [type |-> "REMOVE_ITEM",
                                      payload |-> [id |-> id]])
        /\ subtotal' = Subtotal(cart')
        /\ UNCHANGED <<trackVars, syncVars, priceVars, enrichVars,
                   checkoutVars>>

\* clearCart (lines 206-210)
ClearCart ==
    /\ cart' = cartReducer(cart, [type |-> "CLEAR_CART"])
    /\ subtotal' = Subtotal(cart')
    /\ UNCHANGED <<trackVars, syncVars, priceVars, enrichVars,
                   checkoutVars>>

TrackIdle ==
    /\ stored = InsertedOrder("u1", "X", "I", 1)
    /\ user = "u1"
    /\ order = <<>>
    /\ fetchedOrder = <<>>
    /\ queryError = NoError
    /\ fetching = FALSE
    /\ inflight = <<>>
    /\ now = 1
    /\ alerts = NoAlert
    /\ lastOp = NoOp
    /\ calls = 0
    /\ views = {}
    /\ orderId = StoredId
    /\ channels = EmptyBag
    /\ feedDue = FALSE

InitCart == TrackIdle /\ CartIdle /\ PriceIdle /\ EnrichIdle /\ CheckoutIdle

NextCart ==
    \/ AddItem
    \/ UpdateQuantity
    \/ RemoveItem
    \/ ClearCart

SpecCart == InitCart /\ [][NextCart]_vars

-----------------------------------------------------------------------------
(* Claims about the cart, checked under SpecCart *)

\* The tiers of the line that its quantity reaches.
Qualifying(item) ==
    {i \in 1..Len(item.pricing_tiers) :
        item.pricing_tiers[i].min_quantity <= item.quantity}

\* C1: for every cart line (tier list sorted by min_quantity, quantity >= 1)
\* getUnitPrice is the price of the qualifying tier with the largest
\* min_quantity, and the base price when no tier qualifies.
C1_UnitPriceLargestTier ==
    \A n \in 1..Len(cart) :
        LET item == cart[n]
            ts == item.pricing_tiers
        IN IF Qualifying(item) = {}
           THEN getUnitPrice(item) = item.price
           ELSE \E i \in Qualifying(item) :
                  /\ \A j \in Qualifying(item) :
                        ts[j].min_quantity <= ts[i].min_quantity
                  /\ getUnitPrice(item) = ts[i].price

-----------------------------------------------------------------------------
(* Claims about the transitions, checked under Spec *)

\* The stage list is the six-stage workflow (by its names).
SixStage(stages) ==
    Len(stages) = 6 /\ \A i \in 1..6 : stages[i].name = StageNames[i]

\* The stages value raw is the JSON text of the stage list stages.
StoresList(raw, stages) ==
    /\ raw.kind = "list"
    /\ Len(raw.entries) = Len(stages)
    /\ \A i \in 1..Len(stages) :
          /\ raw.entries[i].name = stages[i].name
          /\ raw.entries[i].timestamp = stages[i].timestamp
          /\ raw.entries[i].completed = (IF stages[i].completed THEN JTrue ELSE JFalse)

\* C2: for an order of the caller whose first incomplete stage has
\* (0-based) index i < 5 in the six-stage list, advanceStage sends, and a
\* successful update stores, the stage list in which stage i is completed
\* with the current time and every other stage is unchanged, and the status
\* becomes the name of stage i+1.
C2_AdvanceCompletesCurrent ==
    [][/\ (/\ AdvanceStage
           /\ order # <<>> /\ user # NoUser
           /\ SixStage(order[1].stages)
           /\ FirstIncomplete(order[1].stages) \in 1..5
           /\ Budget) =>
             LET st == order[1].stages
                 i == FirstIncomplete(st)
                 r == inflight'[Len(inflight')]
             IN /\ Len(inflight') = Len(inflight) + 1
                /\ r.uid = user
                /\ r.status = StageNames[i + 1]
                /\ Len(r.stages) = 6
                /\ r.stages[i] = Stage(st[i].name, TRUE, now)
                /\ \A j \in (1..6) \ {i} : r.stages[j] = st[j]
       /\ \A k \in 1..Len(inflight) :
            (/\ Settle
             /\ inflight' = Remove(inflight, k)
             /\ inflight[k].op = "advanceStage"
             /\ inflight[k].uid = stored.user_id
             /\ lastOp' = Event("advanceStage", "updated")) =>
                /\ StoresList(stored'.stages, inflight[k].stages)
                /\ stored'.status = inflight[k].status
                /\ stored'.user_id = stored.user_id
                /\ stored'.created_at = stored.created_at
      ]_vars

C2_Witness ==
    /\ lastOp = Event("advanceStage", "updated")
    /\ stored.status = "Processing"
    /\ stored.stages.entries[2].completed = JTrue
    /\ stored.stages.entries[2].timestamp = 2
    /\ stored.stages.entries[3].completed = JFalse
    /\ stored.stages.entries[1].timestamp = 1

Terminal(stages) == \A i \in 1..Len(stages) : stages[i].completed

\* C3: advanceStage on a terminal order (every stage completed) issues no
\* write and leaves the local order and the stored row unchanged, however
\* often it is called.
C3_AdvanceTerminalNoOp ==
    [][(AdvanceStage /\ order # <<>> /\ Terminal(order[1].stages)) =>
          UNCHANGED <<inflight, order, fetchedOrder, stored, fetching, alerts,
                      calls>>
      ]_vars

C3_Witness ==
    /\ lastOp = Event("advanceStage", "returned")
    /\ order # <<>>
    /\ Len(order[1].stages) = 6
    /\ Terminal(order[1].stages)
    /\ user = "u1"
    /\ calls = 0

\* The last stage is "Delivered", it is not completed, and every earlier
\* stage is completed.
ReceiptDue(stages) ==
    /\ Len(stages) > 0
    /\ stages[Len(stages)].name = "Delivered"
    /\ ~stages[Len(stages)].completed
    /\ \A i \in 1..(Len(stages) - 1) : stages[i].completed

\* C4: confirmReceipt sends an update only when the last stage is named
\* "Delivered", is not completed, and every earlier stage is completed; in
\* any other state it is rejected and issues no write.
C4_ConfirmReceiptGuarded ==
    lastOp = Event("confirmReceipt", "issued") => ReceiptDue(order[1].stages)

\* C5: a transition attempted by a user who is not the order's owner leaves
\* the stored row unchanged (the update names user_id = current user and
\* matches no row), the refetch that follows it is due, and a fetch by that
\* user that reaches the row ends in "Access denied" without handing the
\* view an order.
C5_NonOwnerDenied ==
    [][/\ ((AdvanceStage \/ ConfirmReceipt) /\ user # stored.user_id) =>
              stored' = stored
       /\ \A k \in 1..Len(inflight) :
            (/\ Settle
             /\ inflight' = Remove(inflight, k)
             /\ inflight[k].uid # stored.user_id) =>
                /\ stored' = stored
                /\ lastOp'.outcome \in {"nomatch", "rejected"}
                /\ (lastOp'.outcome = "nomatch" => fetching')
       /\ (Fetch /\ user \notin {NoUser, stored.user_id}) =>
              /\ lastOp'.outcome \in {"denied", "fetchError"}
              /\ (lastOp'.outcome = "denied" => queryError' = "Access denied")
              /\ UNCHANGED <<order, fetchedOrder, stored>>
      ]_vars

C5_Witness ==
    /\ lastOp = Event("fetch", "denied")
    /\ queryError = "Access denied"
    /\ user = "u2"
    /\ calls > 0
    /\ order # <<>>
    /\ stored \in InitialRows

\* C6: when the store rejects the update of advanceStage or confirmReceipt,
\* the local order is what it was before the call (neither the call nor the
\* rejection touches it), the stored row is unchanged, and the failure is
\* shown to the user.
C6_RejectedUpdateSurfaced ==
    [][/\ (AdvanceStage \/ ConfirmReceipt) =>
              UNCHANGED <<order, fetchedOrder, stored>>
       /\ \A k \in 1..Len(inflight) :
            (/\ Settle
             /\ inflight' = Remove(inflight, k)
             /\ lastOp' = Event(inflight[k].op, "rejected")) =>
                /\ UNCHANGED <<order, fetchedOrder, stored>>
                /\ alerts' = (IF inflight[k].op = "advanceStage"
                              THEN "Failed to advance stage. Please contact support."
                              ELSE "Failed to confirm receipt. Please contact support.")
      ]_vars

C6_Witness ==
    /\ lastOp = Event("advanceStage", "rejected")
    /\ alerts = "Failed to advance stage. Please contact support."
    /\ order # <<>>
    /\ stored \in InitialRows
    /\ inflight = <<>>

-----------------------------------------------------------------------------
(* Claims about the parser, checked under SpecParse *)

\* The fetch of the last step handed the view an order.
Fetched == lastOp = Event("fetch", "fetched") /\ Len(order) = 1

\* The stored stages value is absent (null), the empty string or the empty list.
StagesAbsentOrEmpty ==
    \/ stored.stages.kind \in {"null", "empty"}
    \/ stored.stages.kind = "list" /\ Len(stored.stages.entries) = 0

\* C7: when the stored stages field is absent or empty, the parsed order has
\* the default six-stage workflow with stage 0 completed at created_at and
\* every other stage incomplete.
C7_AbsentStagesGiveDefault ==
    (Fetched /\ StagesAbsentOrEmpty)
        => order[1].stages = DefaultStages(stored.created_at)

\* The stored stages value is a list of exactly one entry tagged "delivery".
StoredSingleDelivery ==
    /\ stored.stages.kind = "list"
    /\ Len(stored.stages.entries) = 1
    /\ stored.stages.entries[1].stage = "delivery"

\* The value of an optional text field, '' when the entry does not carry it.
TextOf(v) == IF v = Absent THEN "" ELSE v

\* C8: a list of exactly one entry whose stage is "delivery" parses to the
\* default six-stage workflow (only Order Placed completed, at created_at)
\* with that entry's address and instructions as delivery info; and every
\* stages value Checkout writes is of this shape, so a new order parses to
\* the default workflow with the address and instructions entered.
C8_SingleDeliveryRecord ==
    /\ (Fetched /\ StoredSingleDelivery) =>
          /\ order[1].stages = DefaultStages(stored.created_at)
          /\ order[1].delivery_address = TextOf(stored.stages.entries[1].address)
          /\ order[1].instructions = TextOf(stored.stages.entries[1].instructions)
    /\ \A a \in Addresses, i \in Instructions :
          (Fetched /\ stored.stages = CheckoutStages(a, i)) =>
              /\ order[1].stages = DefaultStages(stored.created_at)
              /\ order[1].delivery_address = a
              /\ order[1].instructions = i

C8_Witness ==
    /\ Fetched
    /\ stored.stages = CheckoutStages("X", "I")
    /\ order[1].delivery_address = "X"
    /\ Len(order[1].stages) = 6

\* C9: when the stored stages value is not JSON, a fetch that reached the row
\* does not fail: the view receives an order whose stages are the default
\* six-stage workflow with only Order Placed completed, at created_at.
C9_DecodeFailureFallsBack ==
    (/\ stored.stages.kind = "garbage"
     /\ lastOp.op = "fetch"
     /\ lastOp.outcome # "fetchError") =>
        /\ Fetched
        /\ queryError = NoError
        /\ order[1].stages = DefaultStages(stored.created_at)
        /\ fetchedOrder = order

C9_Witness ==
    /\ Fetched
    /\ stored.stages.kind = "garbage"
    /\ order[1].stages[1].completed
    /\ ~order[1].stages[2].completed

\* An optional text field holds a value (a non-empty string).
Has(v) == v # Absent /\ v # ""

\* The name the claim gives an entry.
NameOf(e) ==
    IF Has(e.name) THEN e.name ELSE IF Has(e.stage) THEN e.stage ELSE "Unknown"

\* e is the first entry of es that carries an address.
FirstWithAddress(es, k) ==
    /\ Has(es[k].address)
    /\ \A j \in 1..(k - 1) : ~Has(es[j].address)

\* C10: a decoded list that is not the single delivery record parses to a
\* list of the same length and order; every name is the entry's name if it
\* has one, else its stage if it has one, else "Unknown"; every completed is
\* a boolean (true exactly for a truthy stored value); delivery info is that
\* of the first entry carrying an address, which stays in the list.
C10_GeneralListNormalised ==
    (Fetched /\ stored.stages.kind = "list" /\ ~StoredSingleDelivery) =>
        LET es == stored.stages.entries
            st == order[1].stages
        IN /\ Len(st) = Len(es)
           /\ \A k \in 1..Len(es) :
                /\ st[k].name = NameOf(es[k])
                /\ st[k].completed \in BOOLEAN
                /\ st[k].completed = (es[k].completed \in {JTrue, "yes"})
           /\ \A k \in 1..Len(es) :
                FirstWithAddress(es, k) =>
                    /\ order[1].delivery_address = es[k].address
                    /\ order[1].instructions = TextOf(es[k].instructions)
           /\ (\A k \in 1..Len(es) : ~Has(es[k].address)) =>
                    /\ order[1].delivery_address = ""
                    /\ order[1].instructions = ""

C10_Witness ==
    /\ Fetched
    /\ stored.stages.kind = "list"
    /\ Len(stored.stages.entries) = 2
    /\ stored.stages.entries[1].name = Absent
    /\ stored.stages.entries[1].stage = "delivery"
    /\ ~Has(stored.stages.entries[1].address)
    /\ stored.stages.entries[2].address = "X"
    /\ order[1].stages[1].name = "delivery"
    /\ order[1].delivery_address = "X"

-----------------------------------------------------------------------------
(* Specification of the tracking view opened by the owner on rows whose     *)
(* stage lists earlier versions of the workflow wrote: lists that are not   *)
(* the six default stages.                                                  *)

PlacedEntry == Entry("Order Placed", Absent, Absent, Absent, 1, JTrue)
DeliveryEntry == Entry(Absent, "delivery", "X", "I", AbsentTime, Absent)
ShippedEntry == Entry("Shipped", Absent, Absent, Absent, EmptyTime, JFalse)
DeliveredEntry == Entry("Delivered", Absent, Absent, Absent, EmptyTime, JFalse)
UnnamedEntry == Entry("", Absent, Absent, Absent, AbsentTime, Absent)

LegacyLists ==
    {<<PlacedEntry, DeliveryEntry>>, <<ShippedEntry>>, <<UnnamedEntry>>,
     <<PlacedEntry, ShippedEntry, DeliveredEntry>>}

LegacyRows ==
    {Row("u1", "Shipped", Raw("list", es), 1) : es \in LegacyLists}
    \cup {InsertedOrder("u1", a, "I", 1) : a \in Addresses}

InitLegacy ==
    /\ stored \in LegacyRows
    /\ user = "u1"
    /\ order = <<>>
    /\ fetchedOrder = <<>>
    /\ queryError = NoError
    /\ fetching = TRUE
    /\ inflight = <<>>
    /\ now = 1
    /\ alerts = NoAlert
    /\ lastOp = NoOp
    /\ calls = 0
    /\ Tracking
    /\ CartIdle
    /\ PriceIdle
    /\ EnrichIdle
    /\ CheckoutIdle

NextLegacy ==
    \/ Fetch
    \/ Tick
    \/ AdvanceStage
    \/ ConfirmReceipt
    \/ Settle

SpecLegacy == InitLegacy /\ [][NextLegacy]_vars

-----------------------------------------------------------------------------
(* Claims on what the transitions store *)

\* The step is a Settle whose update wrote the row.
Wrote == Len(inflight') < Len(inflight) /\ lastOp'.outcome = "updated"

\* C11: parsing the stages value that advanceStage or confirmReceipt stored
\* gives back the stage list the handler serialised: same length, names,
\* completion flags and timestamps.
C11_RoundTrip ==
    [][Wrote =>
        \E k \in 1..Len(inflight) :
            /\ inflight' = Remove(inflight, k)
            /\ ParseStages(stored'.stages, stored'.created_at).stages
                 = inflight[k].stages]_vars

\* confirmReceipt stored a list of one stage, the length at which the parser
\* looks for the delivery record.
C11_Witness ==
    /\ lastOp = Event("confirmReceipt", "updated")
    /\ stored.stages.kind = "list"
    /\ Len(stored.stages.entries) = 1
    /\ stored.stages.entries[1].completed = JTrue

-----------------------------------------------------------------------------
(* Specification of the view kept in step with the store: the owner's       *)
(* transitions, another writer advancing the same row, the change           *)
(* notifications of the channel and the Retry button.                       *)

\* Another writer (an operator's tool) completes the current stage of the
\* row as it is stored; the channel of lines 202-211 is signalled.
ExternalAdvance ==
    LET stages == ParseStages(stored.stages, stored.created_at).stages
        i == FirstIncomplete(stages)
    IN /\ i > 0
       /\ stored' = [stored EXCEPT
              !.status = IF i < Len(stages) THEN stages[i + 1].name
                         ELSE "Confirmed Received",
              !.stages = Stringify(Complete(stages, i, now))]
       /\ feedDue' = (feedDue \/ Subscribed(channels))
       /\ lastOp' = Event("external", "updated")
       /\ UNCHANGED <<user, order, fetchedOrder, queryError, fetching,
                      inflight, now, alerts, calls, cartVars, priceVars,
                      enrichVars, checkoutVars,
                      views, orderId, channels>>

\* A callback that logs the payload and does not refetch.
NotifyIgnored ==
    /\ feedDue
    /\ feedDue' = FALSE
    /\ lastOp' = Event("notification", "refetch")
    /\ UNCHANGED <<stored, user, order, fetchedOrder, queryError, fetching,
                   inflight, now, alerts, calls, cartVars, priceVars,
                   enrichVars, checkoutVars, views,
                   orderId, channels>>

\* The postgres_changes callback of lines 206-209: refetch()
Notify ==
    /\ feedDue
    /\ feedDue' = FALSE
    /\ fetching' = TRUE
    /\ lastOp' = Event("notification", "refetch")
    /\ UNCHANGED <<stored, user, order, fetchedOrder, queryError, inflight,
                   now, alerts, calls, cartVars, priceVars,
                   enrichVars, checkoutVars, views, orderId,
                   channels>>

\* The render shows the loading screen (line 266): no data yet, fetch running.
Loading == fetching /\ fetchedOrder = <<>>

\* The render shows the error screen with its Retry button (line 274).
ErrorScreen ==
    ~Loading /\ (queryError # NoError \/ fetchedOrder = <<>> \/ order = <<>>)

\* The Retry button (lines 283-285): refetch()
Retry ==
    /\ "track" \in views
    /\ ErrorScreen
    /\ fetching' = TRUE
    /\ lastOp' = Event("retry", "refetch")
    /\ UNCHANGED <<stored, user, order, fetchedOrder, queryError, inflight,
                   now, alerts, calls, cartVars, priceVars,
                   enrichVars, checkoutVars,
                   syncVars>>

SyncRows == {ProgressedRow(k, 1) : k \in 4..5}

InitSync ==
    /\ stored \in SyncRows
    /\ user = "u1"
    /\ order = <<>>
    /\ fetchedOrder = <<>>
    /\ queryError = NoError
    /\ fetching = TRUE
    /\ inflight = <<>>
    /\ now = 1
    /\ alerts = NoAlert
    /\ lastOp = NoOp
    /\ calls = 0
    /\ Tracking
    /\ CartIdle
    /\ PriceIdle
    /\ EnrichIdle
    /\ CheckoutIdle

NextSync ==
    \/ Fetch
    \/ Tick
    \/ AdvanceStage
    \/ ConfirmReceipt
    \/ Settle
    \/ ExternalAdvance
    \/ Notify
    \/ Retry

SpecSync == InitSync /\ [][NextSync]_vars

-----------------------------------------------------------------------------
(* Claims on the stored record under concurrent writers *)

\* The stage list the stored row parses to.
StoredStages(row) == ParseStages(row.stages, row.created_at).stages

\* C12: under every interleaving of the owner's advanceStage and
\* confirmReceipt, another writer advancing the same order, change
\* notifications and refetches, a stage stored as completed is never
\* afterwards stored as incomplete.
C12_CompletionMonotonic ==
    [][\A i \in 1..Len(StoredStages(stored)) :
          StoredStages(stored)[i].completed
            => /\ i <= Len(StoredStages(stored'))
               /\ StoredStages(stored')[i].completed]_vars

-----------------------------------------------------------------------------
(* Claims on the shape of the stored record *)

\* Every stage before a completed stage is completed.
CompletedPrefix(stages) ==
    \A i, j \in 1..Len(stages) :
        (i < j /\ stages[j].completed) => stages[i].completed

\* C13: in every state reached from a placed order through advanceStage and
\* confirmReceipt the stage list, stored and displayed, is a run of
\* completed stages followed by a run of incomplete ones.
C13_CompletedPrefix ==
    /\ CompletedPrefix(StoredStages(stored))
    /\ order # <<>> => CompletedPrefix(order[1].stages)

\* C14: as long as the stored order has an incomplete stage, its status is
\* the name of the first incomplete stage of the list it parses to.
C14_StatusIsCurrentStage ==
    LET stages == StoredStages(stored)
    IN FirstIncomplete(stages) > 0
         => stored.status = stages[FirstIncomplete(stages)].name

-----------------------------------------------------------------------------
(* Claims on the re-read *)

\* C16: the callback of a change notification and the Retry button each
\* leave a run of the query due; a run that succeeds sets the displayed
\* order to the parse of the row it read, whatever the local order was; and
\* nothing but such a run changes the displayed order.
C16_RereadReplaces ==
    [][/\ (feedDue /\ ~feedDue') => fetching'
       /\ lastOp'.op = "retry" => fetching'
       /\ (fetching /\ ~fetching' /\ lastOp' = Event("fetch", "fetched"))
            => /\ order' = <<Order(stored, ParseStages(stored.stages,
                                                       stored.created_at))>>
               /\ fetchedOrder' = order'
       /\ order' # order
            => (fetching /\ lastOp' = Event("fetch", "fetched"))]_vars

\* A notification was processed while the display was behind the row and a
\* transition of the view was still awaiting the store.
C16_Witness ==
    /\ lastOp = Event("notification", "refetch")
    /\ fetching
    /\ inflight # <<>>
    /\ order # <<>>
    /\ order[1].stages # StoredStages(stored)

-----------------------------------------------------------------------------
(* Specification of the view under fair scheduling: every due run of the    *)
(* query is run and answered by the store, every awaited update settles and *)
(* every signalled change reaches its callback.  The session may change     *)
(* under the mounted view.                                                  *)

\* A run of the query that the store answers.
FetchAnswered == Fetch /\ lastOp'.outcome # "fetchError"

NextLive ==
    \/ FetchAnswered
    \/ AuthChange
    \/ AdvanceStage
    \/ ConfirmReceipt
    \/ Settle
    \/ ExternalAdvance
    \/ Notify

SpecLive ==
    /\ InitSync
    /\ [][NextLive]_vars
    /\ WF_vars(FetchAnswered)
    /\ WF_vars(Settle)
    /\ WF_vars(Notify)

\* The displayed stages and status are those of the parse of the stored row.
Converged ==
    /\ order # <<>>
    /\ order[1].stages = StoredStages(stored)
    /\ order[1].status = stored.status

\* C15: once the signed-in user stays the owner (so that fetches succeed),
\* and with the stored row changing finitely often, the displayed stages and
\* status eventually equal the parse of the stored row and stay equal.
C15_Convergence == (<>[](user = stored.user_id)) => <>[]Converged

-----------------------------------------------------------------------------
(* Specification of the subscription lifecycle: the pages are opened and    *)
(* closed, the route of TrackOrder changes and the session changes.         *)

\* The router mounts TrackOrder on /track/:orderId: fresh state (line 44),
\* the query is due (line 188) and the effects run.
OpenTrackOrder ==
    \E id \in OrderIds :
        /\ "track" \notin views
        /\ views' = views \cup {"track"}
        /\ orderId' = id
        /\ order' = <<>>
        /\ fetchedOrder' = <<>>
        /\ queryError' = NoError
        /\ fetching' = TRUE
        /\ channels' = RunEffects(channels, views, orderId, user,
                                  views', id, user)
        /\ feedDue' = FALSE
        /\ lastOp' = Event("mount", "track")
        /\ UNCHANGED <<stored, user, inflight, now, alerts, calls, cartVars,
                       priceVars, enrichVars,
                   checkoutVars>>

\* The router unmounts TrackOrder: the cleanup of its effects runs.
CloseTrackOrder ==
    /\ "track" \in views
    /\ views' = views \ {"track"}
    /\ order' = <<>>
    /\ fetchedOrder' = <<>>
    /\ queryError' = NoError
    /\ fetching' = FALSE
    /\ channels' = RunEffects(channels, views, orderId, user,
                              views', orderId, user)
    /\ feedDue' = FALSE
    /\ lastOp' = Event("unmount", "track")
    /\ UNCHANGED <<stored, user, orderId, inflight, now, alerts, calls,
                   cartVars, priceVars, enrichVars,
                   checkoutVars>>

\* The route parameter changes under the mounted TrackOrder: the query key
\* (line 61) and the effect dependencies (line 216) change, the local order
\* of useState stays.
Navigate ==
    \E id \in OrderIds :
        /\ "track" \in views
        /\ id # orderId
        /\ orderId' = id
        /\ fetchedOrder' = <<>>
        /\ queryError' = NoError
        /\ fetching' = TRUE
        /\ channels' = RunEffects(channels, views, orderId, user,
                                  views, id, user)
        /\ feedDue' = FALSE
        /\ lastOp' = Event("navigate", "track")
        /\ UNCHANGED <<stored, user, order, views, inflight, now, alerts,
                       calls, cartVars, priceVars, enrichVars,
                   checkoutVars>>

\* The router mounts Orders (Notifications.tsx): its effect runs.
OpenOrders ==
    /\ "orders" \notin views
    /\ views' = views \cup {"orders"}
    /\ channels' = RunEffects(channels, views, orderId, user,
                              views', orderId, user)
    /\ lastOp' = Event("mount", "orders")
    /\ UNCHANGED <<dataVars, orderId, feedDue, cartVars, priceVars, enrichVars,
                   checkoutVars>>

\* The router unmounts Orders: the cleanup of its effect runs.
CloseOrders ==
    /\ "orders" \in views
    /\ views' = views \ {"orders"}
    /\ channels' = RunEffects(channels, views, orderId, user,
                              views', orderId, user)
    /\ lastOp' = Event("unmount", "orders")
    /\ UNCHANGED <<dataVars, orderId, feedDue, cartVars, priceVars, enrichVars,
                   checkoutVars>>

\* onAuthStateChange delivers a new session object of the same user (token
\* refresh): session and user change identity and both effects re-run.
TokenRefresh ==
    /\ user # NoUser
    /\ channels' = RunEffects(channels, views, orderId, user,
                              views, orderId, user)
    /\ feedDue' = FALSE
    /\ lastOp' = Event("auth", "refreshed")
    /\ UNCHANGED <<dataVars, views, orderId, cartVars, priceVars, enrichVars,
                   checkoutVars>>

InitSub ==
    /\ stored = InsertedOrder("u1", "X", "I", 1)
    /\ user \in Users \cup {NoUser}
    /\ order = <<>>
    /\ fetchedOrder = <<>>
    /\ queryError = NoError
    /\ fetching = FALSE
    /\ inflight = <<>>
    /\ now = 1
    /\ alerts = NoAlert
    /\ lastOp = NoOp
    /\ calls = 0
    /\ views = {}
    /\ orderId = StoredId
    /\ channels = EmptyBag
    /\ feedDue = FALSE
    /\ CartIdle
    /\ PriceIdle
    /\ EnrichIdle
    /\ CheckoutIdle

NextSub ==
    \/ OpenTrackOrder
    \/ CloseTrackOrder
    \/ Navigate
    \/ OpenOrders
    \/ CloseOrders
    \/ AuthChange
    \/ TokenRefresh
    \/ Fetch

SpecSub == InitSub /\ [][NextSub]_vars

-----------------------------------------------------------------------------
(* Claims on the subscriptions *)

\* C17: the realtime client holds at most one channel per order id and at
\* most one per owner id, and holds one only while its scope lasts: the
\* TrackOrder page mounted on that order with a session, the Orders page
\* mounted with that user.
C17_OneSubscriptionPerScope ==
    /\ \A id \in OrderIds :
          /\ CopiesIn(OrderChannel(id), channels) <= 1
          /\ BagIn(OrderChannel(id), channels)
               => ("track" \in views /\ orderId = id /\ user # NoUser)
    /\ \A u \in Users :
          /\ CopiesIn(UserOrdersChannel(u), channels) <= 1
          /\ BagIn(UserOrdersChannel(u), channels)
               => ("orders" \in views /\ user = u)

\* With both pages mounted the route went from one order to another: the
\* channel of the new order is held, that of the old one is gone.
C17_Witness ==
    /\ lastOp = Event("navigate", "track")
    /\ views = {"track", "orders"}
    /\ user = "u2"
    /\ orderId = "o2"
    /\ BagIn(OrderChannel("o2"), channels)
    /\ BagIn(UserOrdersChannel("u2"), channels)
    /\ ~BagIn(OrderChannel("o1"), channels)

-----------------------------------------------------------------------------
(* Specification of the view driven through its buttons *)

\* The render reaches the order page (past lines 266 and 274).
Rendered == "track" \in views /\ ~Loading /\ ~ErrorScreen

\* The Mark as Done button (lines 395-403) is rendered on the current stage
\* when that stage is named 'Confirmed Received'; onClick = advanceStage.
ClickMarkAsDone ==
    /\ Rendered
    /\ LET stages == order[1].stages
       IN /\ FirstIncomplete(stages) > 0
          /\ stages[FirstIncomplete(stages)].name = "Confirmed Received"
    /\ AdvanceStage

\* The Confirm Received button (lines 414-421) is rendered when the last
\* stage is named 'Delivered' and is not completed; onClick = confirmReceipt.
ClickConfirmReceived ==
    /\ Rendered
    /\ LET stages == order[1].stages
       IN /\ Len(stages) > 0
          /\ stages[Len(stages)].name = "Delivered"
          /\ ~stages[Len(stages)].completed
    /\ ConfirmReceipt

InitUI ==
    /\ stored \in LegacyRows \cup {ProgressedRow(5, 1)}
    /\ user = "u1"
    /\ order = <<>>
    /\ fetchedOrder = <<>>
    /\ queryError = NoError
    /\ fetching = TRUE
    /\ inflight = <<>>
    /\ now = 1
    /\ alerts = NoAlert
    /\ lastOp = NoOp
    /\ calls = 0
    /\ Tracking
    /\ CartIdle
    /\ PriceIdle
    /\ EnrichIdle
    /\ CheckoutIdle

NextUI ==
    \/ Fetch
    \/ Tick
    \/ ClickMarkAsDone
    \/ ClickConfirmReceived
    \/ Settle

SpecUI == InitUI /\ [][NextUI]_vars

\* C18: at most one update of advanceStage or confirmReceipt awaits the
\* store at any time.
C18_OneWriteInFlight == Len(inflight) <= 1

-----------------------------------------------------------------------------
(* ProductDetail: parsePriceToNumber (lines 64-71)                          *)
(*                                                                          *)
(* A JavaScript number is a decimal m / 10^e kept in lowest form, or NaN;   *)
(* a string is the sequence of its characters.                              *)

MaxChars == 4        \* longest price text drawn from the alphabet

Dec(m, e) == [mant |-> m, exp |-> e]
NaN == [mant |-> 0, exp |-> 0 - 1]
Zero == Dec(0, 0)

RECURSIVE Normalize(_, _)
Normalize(m, e) ==
    IF e > 0 /\ m % 10 = 0 THEN Normalize(m \div 10, e - 1) ELSE Dec(m, e)

DigitChars == <<"0", "1", "2", "3", "4", "5", "6", "7", "8", "9">>
IsDigit(c) == \E i \in 1..10 : DigitChars[i] = c
DigitVal(c) == (CHOOSE i \in 1..10 : DigitChars[i] = c) - 1

\* The integer a run of digits denotes.
RECURSIVE ToInt(_)
ToInt(ds) ==
    IF ds = <<>> THEN 0
    ELSE 10 * ToInt(SubSeq(ds, 1, Len(ds) - 1)) + DigitVal(ds[Len(ds)])

\* The number of digits s starts with.
LeadingDigits(s) ==
    CHOOSE n \in 0..Len(s) :
        /\ \A i \in 1..n : IsDigit(s[i])
        /\ n = Len(s) \/ ~IsDigit(s[n + 1])

\* String.prototype.replace(pat, '') with a string pattern: the first
\* occurrence of pat is removed.
RemoveFirst(s, pat) ==
    LET Occurs(k) == k + Len(pat) - 1 <= Len(s)
                     /\ SubSeq(s, k, k + Len(pat) - 1) = pat
    IN IF \E k \in 1..Len(s) : Occurs(k)
       THEN LET k == CHOOSE k \in 1..Len(s) :
                        Occurs(k) /\ \A j \in 1..(k - 1) : ~Occurs(j)
            IN SubSeq(s, 1, k - 1) \o SubSeq(s, k + Len(pat), Len(s))
       ELSE s

\* replace(/[^\d.]/g, ''): digits and dots are kept
StripNonNumeric(s) ==
    LET Kept(c) == IsDigit(c) \/ c = "."
    IN SelectSeq(s, Kept)

\* parseFloat on a string of digits and dots: the longest prefix that is a
\* decimal literal (digits, then optionally a dot and digits), NaN when the
\* prefix has no digit.
parseFloat(s) ==
    LET n == LeadingDigits(s)
        rest == IF n < Len(s) /\ s[n + 1] = "."
                THEN SubSeq(s, n + 2, Len(s)) ELSE <<>>
        f == LeadingDigits(rest)
    IN IF n = 0 /\ f = 0 THEN NaN
       ELSE Normalize(ToInt(SubSeq(s, 1, n) \o SubSeq(rest, 1, f)), f)

NumberInput(v) == [kind |-> "number", num |-> v]
TextInput(s) == [kind |-> "text", text |-> s]
AbsentInput == [kind |-> "absent"]

\* parsePriceToNumber without the || 0 of line 68.
parsePriceToNumberNoDefault(raw) ==
    CASE raw.kind = "absent" -> Zero
      [] raw.kind = "number" -> raw.num
      [] raw.kind = "text" ->
            parseFloat(StripNonNumeric(RemoveFirst(raw.text,
                                                   <<"K", "E", "S", " ">>)))

\* parsePriceToNumber (lines 64-71); x || 0 is 0 when x is NaN or 0.
parsePriceToNumber(raw) ==
    CASE raw.kind = "absent" -> Zero
      [] raw.kind = "number" -> raw.num
      [] raw.kind = "text" ->
            LET x == parseFloat(StripNonNumeric(
                         RemoveFirst(raw.text, <<"K", "E", "S", " ">>)))
            IN IF x = NaN \/ x = Zero THEN Zero ELSE x

PriceChars == {"K", "E", "S", " ", ",", ".", "0", "2", "5"}

PriceTexts ==
    UNION {[1..n -> PriceChars] : n \in 0..MaxChars}
    \cup {<<"K", "E", "S", " ", "1", ",", "2", "0", "0", ".", "5", "0">>,
          <<"n", "/", "a">>,
          <<"K", "s", "h", ".", " ", "1", "2", "0", "0">>}

PriceNumbers == {Zero, Dec(100, 0), Dec(12005, 1), Dec(0 - 5, 0), NaN}

PriceInputs ==
    {AbsentInput} \cup {NumberInput(v) : v \in PriceNumbers}
    \cup {TextInput(t) : t \in PriceTexts}

\* getNumericPriceForCart (lines 159-169) on the selected variant's price
GetNumericPriceForCart ==
    /\ numericPrice = <<>>
    /\ numericPrice' = <<parsePriceToNumber(rawPrice)>>
    /\ UNCHANGED <<trackVars, syncVars, cartVars, rawPrice, enrichVars,
                   checkoutVars>>

InitPrice ==
    /\ TrackIdle
    /\ CartIdle
    /\ rawPrice \in PriceInputs
    /\ numericPrice = <<>>
    /\ EnrichIdle
    /\ CheckoutIdle

NextPrice == GetNumericPriceForCart

SpecPrice == InitPrice /\ [][NextPrice]_vars

-----------------------------------------------------------------------------
(* Claims on price parsing *)

\* The digits of a text, in order, and how many of them follow a dot.
DigitsOf(t) == SelectSeq(t, IsDigit)
DotCount(t) == Cardinality({i \in 1..Len(t) : t[i] = "."})
FractionDigits(t) ==
    Cardinality({i \in 1..Len(t) :
                    IsDigit(t[i]) /\ \E j \in 1..(i - 1) : t[j] = "."})

\* C19: parsePriceToNumber returns a number as it is and 0 for an absent
\* price; for a text it never returns NaN, returns 0 when the text has no
\* digit, and, when the digits and dots of the text form a decimal numeral
\* (at most one dot), returns the value of that numeral.
C19_ParsePrice ==
    numericPrice # <<>> =>
        LET r == numericPrice[1] IN
        CASE rawPrice.kind = "number" -> r = rawPrice.num
          [] rawPrice.kind = "absent" -> r = Zero
          [] rawPrice.kind = "text" ->
                LET t == rawPrice.text IN
                /\ r # NaN
                /\ DigitsOf(t) = <<>> => r = Zero
                /\ (DigitsOf(t) # <<>> /\ DotCount(t) <= 1)
                     => r = Normalize(ToInt(DigitsOf(t)), FractionDigits(t))

\* "KES 1,200.50" was parsed to 1200.5.
C19_Witness ==
    /\ rawPrice = TextInput(<<"K", "E", "S", " ", "1", ",", "2", "0", "0",
                              ".", "5", "0">>)
    /\ numericPrice = <<Dec(12005, 1)>>

-----------------------------------------------------------------------------
(* Claims on the cart totals *)

\* The unit price the pricing contract resolves for a line: the price of
\* the qualifying tier with the largest min_quantity (the first such tier on
\* a tie), the base price when no tier qualifies.
ResolvedUnitPrice(item) ==
    IF Qualifying(item) = {} THEN item.price
    ELSE LET ts == item.pricing_tiers
             i == CHOOSE i \in Qualifying(item) :
                    /\ \A j \in Qualifying(item) :
                          ts[j].min_quantity <= ts[i].min_quantity
                    /\ \A j \in Qualifying(item) :
                          ts[j].min_quantity = ts[i].min_quantity => i <= j
         IN ts[i].price

RECURSIVE LineTotals(_)
LineTotals(items) ==
    IF items = <<>> THEN 0
    ELSE ResolvedUnitPrice(Head(items)) * Head(items).quantity
         + LineTotals(Tail(items))

\* C20: after any sequence of ADD_ITEM, UPDATE_QUANTITY, REMOVE_ITEM and
\* CLEAR_CART the subtotal is the sum over the cart lines of the resolved
\* unit price of the line at its quantity times that quantity, 0 for the
\* empty cart.
C20_SubtotalIsSumOfLines == subtotal = LineTotals(cart)

\* The same sum taken with the unit price getUnitPrice returns.
RECURSIVE CodeLineTotals(_)
CodeLineTotals(items) ==
    IF items = <<>> THEN 0
    ELSE getUnitPrice(Head(items)) * Head(items).quantity
         + CodeLineTotals(Tail(items))

SubtotalIsSumOfCodePrices == subtotal = CodeLineTotals(cart)

-----------------------------------------------------------------------------
(* Claims on the cart lines *)

UpdateQuantityAction(id, q) ==
    [type |-> "UPDATE_QUANTITY", payload |-> [id |-> id, quantity |-> q]]

AddPayloads ==
    {CartItem(id, price, q, ts, v) :
        id \in ProductIds, price \in BasePrices, q \in 1..MaxQty,
        ts \in TierLists, v \in VariantIds}

\* C28: no two lines of a reachable cart share an id; ADD_ITEM for an id the
\* cart holds adds the payload quantity to that line and changes nothing
\* else (whatever variant and tiers the payload names), and ADD_ITEM for a
\* new id appends the payload as one line.
C28_OneLinePerId ==
    /\ \A i, j \in 1..Len(cart) : cart[i].id = cart[j].id => i = j
    /\ \A payload \in AddPayloads :
          LET next == cartReducer(cart, [type |-> "ADD_ITEM",
                                         payload |-> payload])
          IN IF \E i \in 1..Len(cart) : cart[i].id = payload.id
             THEN /\ Len(next) = Len(cart)
                  /\ \A i \in 1..Len(cart) :
                        IF cart[i].id = payload.id
                        THEN /\ next[i].quantity
                                  = cart[i].quantity + payload.quantity
                             /\ next[i].price = cart[i].price
                             /\ next[i].pricing_tiers = cart[i].pricing_tiers
                             /\ next[i].variant_id = cart[i].variant_id
                             /\ next[i].id = cart[i].id
                        ELSE next[i] = cart[i]
             ELSE next = cart \o <<payload>>

\* A line of variant v1 with tiers whose quantity is above what one
\* ADD_ITEM of the model's first step could give it only by a second
\* ADD_ITEM or an update, next to a line of the other product.
C28_Witness ==
    /\ Len(cart) = 2
    /\ cart[1].id = "p1" /\ cart[1].variant_id = "v1"
    /\ cart[1].pricing_tiers # <<>>
    /\ cart[1].quantity = 3
    /\ cart[2].id = "p2" /\ cart[2].variant_id = "v2"
    /\ LET next == cartReducer(cart, [type |-> "ADD_ITEM",
                       payload |-> CartItem("p1", 100, 2, <<>>, "v2")])
       IN Len(next) = 2 /\ next[1].quantity = 5 /\ next[1].variant_id = "v1"

\* C22: advanceStage called by a signed-in user on a loaded order returns
\* without sending an update only when the order is terminal; on every
\* other order, the one whose current stage is the last stage included, it
\* sends the update that completes the current stage.
C22_AdvanceCompletesLastStage ==
    (/\ lastOp = Event("advanceStage", "returned")
     /\ order # <<>>
     /\ user # NoUser) => Terminal(order[1].stages)

-----------------------------------------------------------------------------
(* The owner working through the timeline: every button the view offers is  *)
(* eventually clicked, every fetch is answered, every update settles.       *)

\* The rows Checkout handlePlaceOrder inserts (lines 143-151).
PlacedRows ==
    {InsertedOrder("u1", a, i, 1) : a \in Addresses, i \in Instructions}

InitTimeline ==
    /\ stored \in PlacedRows \cup LegacyRows \cup {ProgressedRow(k, 1) : k \in 1..6}
    /\ user = "u1"
    /\ order = <<>>
    /\ fetchedOrder = <<>>
    /\ queryError = NoError
    /\ fetching = TRUE
    /\ inflight = <<>>
    /\ now = 1
    /\ alerts = NoAlert
    /\ lastOp = NoOp
    /\ calls = 0
    /\ Tracking
    /\ CartIdle
    /\ PriceIdle
    /\ EnrichIdle
    /\ CheckoutIdle

NextTimeline ==
    \/ FetchAnswered
    \/ Tick
    \/ ClickMarkAsDone
    \/ ClickConfirmReceived
    \/ Settle

SpecTimeline ==
    /\ InitTimeline
    /\ [][NextTimeline]_vars
    /\ WF_vars(FetchAnswered)
    /\ WF_vars(Settle)
    /\ WF_vars(ClickMarkAsDone)
    /\ WF_vars(ClickConfirmReceived)

\* C23: an order stored as Checkout stores it reaches, through the buttons
\* the tracking view offers to its owner, the state in which every one of
\* its six stages is stored as completed.
C23_TerminalReached ==
    (stored \in PlacedRows) =>
        <>(/\ Len(StoredStages(stored)) = 6
           /\ Terminal(StoredStages(stored)))

\* While the row is the one Checkout inserted, no button has sent an update.
PlacedOrderNeverWritten ==
    (stored \in PlacedRows) => (calls = 0 /\ inflight = <<>>)

-----------------------------------------------------------------------------
(* Order of the completion times *)

TimestampsNonDecreasing(stages) ==
    \A i, j \in 1..Len(stages) :
        (i < j /\ stages[i].completed /\ stages[j].completed)
            => stages[i].timestamp <= stages[j].timestamp

\* C24: in every stage list reached through advanceStage and confirmReceipt,
\* stored or displayed, no completed stage carries a timestamp earlier than
\* that of a completed stage before it; the clock only moves forward.
C24_TimestampsNonDecreasing ==
    /\ TimestampsNonDecreasing(StoredStages(stored))
    /\ order # <<>> => TimestampsNonDecreasing(order[1].stages)

-----------------------------------------------------------------------------
(* TrackOrder queryFn: the price given to an order item (lines 108-129)     *)

\* (x as number) || other on a price that is not a string: undefined, NaN
\* and 0 are falsy.
NumberOr(raw, other) ==
    IF raw.kind = "number" /\ raw.num # NaN /\ raw.num # Zero
    THEN raw.num
    ELSE other

\* lines 116 and 121: typeof p === 'string'
\*   ? parseFloat(p.replace(/[^\d.]/g, '')) : (p as number) || other
PriceOf(raw, other) ==
    IF raw.kind = "text"
    THEN parseFloat(StripNonNumeric(raw.text))
    ELSE NumberOr(raw, other)

\* lines 112-121: itemPrice after the product row and, when the item names
\* a variant, the variant row have been read.
EnrichedPrice(item) ==
    LET itemPrice == PriceOf(item.product, Zero)
    IN IF item.hasVariant THEN PriceOf(item.variant, itemPrice) ELSE itemPrice

\* The price fields the two tables can hold for an item.
StoredNumbers == {Zero, Dec(100, 0), Dec(12005, 1)}
ProductPrices ==
    {AbsentInput} \cup {NumberInput(v) : v \in StoredNumbers}
    \cup {TextInput(t) : t \in UNION {[1..n -> PriceChars] : n \in 0..(MaxChars - 1)}}
    \cup {TextInput(<<"n", "/", "a">>),
          TextInput(<<"K", "E", "S", " ", "1", ",", "2", "0", "0", ".", "5", "0">>)}
VariantPrices ==
    {AbsentInput, NumberInput(Zero), NumberInput(Dec(100, 0)),
     TextInput(<<"n", "/", "a">>), TextInput(<<"9", "0">>)}

OrderItem(product, hasVariant, variant, price) ==
    [read |-> TRUE, product |-> product, hasVariant |-> hasVariant,
     variant |-> variant, price |-> price]

\* The map callback of lines 109-127 on one item.
EnrichItem ==
    /\ orderItem.read
    /\ orderItem.price = <<>>
    /\ orderItem' = [orderItem EXCEPT !.price = <<EnrichedPrice(orderItem)>>]
    /\ UNCHANGED <<trackVars, syncVars, cartVars, priceVars, checkoutVars>>

InitEnrich ==
    /\ TrackIdle
    /\ CartIdle
    /\ PriceIdle
    /\ CheckoutIdle
    /\ orderItem \in
          {OrderItem(p, FALSE, AbsentInput, <<>>) : p \in ProductPrices}
          \cup {OrderItem(p, TRUE, v, <<>>) :
                    p \in ProductPrices, v \in VariantPrices}

NextEnrich == EnrichItem

SpecEnrich == InitEnrich /\ [][NextEnrich]_vars

\* C25: the price the tracking view gives an order item is a valid number
\* that is not negative, and it is 0 when the price it is read from is a
\* text in which no digit remains.
C25_EnrichedPriceValid ==
    (orderItem.read /\ orderItem.price # <<>>) =>
        LET r == orderItem.price[1] IN
        /\ r # NaN
        /\ r.mant >= 0
        /\ (/\ ~orderItem.hasVariant
            /\ orderItem.product.kind = "text"
            /\ DigitsOf(orderItem.product.text) = <<>>) => r = Zero
        /\ (/\ orderItem.hasVariant
            /\ orderItem.variant.kind = "text"
            /\ DigitsOf(orderItem.variant.text) = <<>>) => r = Zero

-----------------------------------------------------------------------------
(* Orders (Notifications.tsx): the stages of a row of the orders list       *)

\* lines 278-288: parsedStages = JSON.parse(order.stages || '[]'), [] when
\* the parse throws.  The decoded value is kept as it is.
OrdersParse(raw) ==
    CASE raw.kind \in {"null", "empty", "garbage"} -> Raw("list", <<>>)
      [] OTHER -> raw

\* What the list reads of one element of order.stages (lines 457-470): its
\* name, whether completed is truthy, and its timestamp when truthy.
ListedStage(e) ==
    Stage(e.name, Truthy(e.completed),
          IF TruthyTime(e.timestamp) THEN e.timestamp ELSE EmptyTime)

\* C26: for the same stored row the orders list derives the stage list the
\* tracking view derives: the single delivery record gives the six-stage
\* default, and a stages value that does not decode gives the default
\* workflow.
C26_ListViewSameStages ==
    Fetched =>
        LET v == OrdersParse(stored.stages) IN
        /\ v.kind = "list"
        /\ [i \in 1..Len(v.entries) |-> ListedStage(v.entries[i])]
              = order[1].stages

-----------------------------------------------------------------------------
(* Delivery information of the stored row *)

\* The delivery address and instructions the queryFn extracts from a row
\* (lines 140-141, 155-158, 166-167).
DeliveryInfo(row) ==
    LET p == ParseStages(row.stages, row.created_at)
    IN <<p.delivery_address, p.instructions>>

\* C27: no step changes the delivery address and instructions that parsing
\* the stored row yields; after every advanceStage and confirmReceipt write
\* they are those of the first parse after checkout.
C27_DeliveryInfoKept ==
    [][DeliveryInfo(stored') = DeliveryInfo(stored)]_vars

-----------------------------------------------------------------------------
(* Checkout: the discount code and handlePlaceOrder                         *)
(*                                                                          *)
(* The discount code is the sequence of its characters; amounts are the     *)
(* decimals of the price section.                                           *)

MaxOrders == 2       \* most rows Checkout inserts in a run

SAVE10 == <<"S", "A", "V", "E", "1", "0">>

\* String.prototype.trim: leading and trailing spaces are removed.
RECURSIVE TrimStart(_)
TrimStart(t) == IF t # <<>> /\ t[1] = " " THEN TrimStart(Tail(t)) ELSE t
RECURSIVE TrimEnd(_)
TrimEnd(t) ==
    IF t # <<>> /\ t[Len(t)] = " " THEN TrimEnd(SubSeq(t, 1, Len(t) - 1)) ELSE t
Trim(t) == TrimEnd(TrimStart(t))

\* subtotal * 0.1 (line 103)
TenPercent(n) == Normalize(n, 1)

\* discountedTotal = subtotal - appliedDiscount (line 112)
discountedTotal(n, discount) ==
    IF discount.exp = 0
    THEN Dec(n - discount.mant, 0)
    ELSE Normalize(10 * n - discount.mant, 1)

\* What the clipboard can hold and what can be typed into the field.
ClipboardTexts ==
    {<<>>, SAVE10, <<" ">> \o SAVE10 \o <<" ">>, <<"X">>,
     <<"s", "a", "v", "e", "1", "0">>}
TypedCodes ==
    {<<>>, <<"X">>, SAVE10, SubSeq(SAVE10, 1, 5), SAVE10 \o <<" ">>}

\* handlePaste (lines 93-110).  readable is whether the clipboard exists and
\* readText resolves.
HandlePaste ==
    \E readable \in BOOLEAN, text \in ClipboardTexts :
        /\ IF readable
           THEN LET trimmedCode == Trim(text) IN
                /\ checkout' = [checkout EXCEPT
                      !.discountCode = trimmedCode,
                      !.appliedDiscount = IF trimmedCode = SAVE10
                                          THEN TenPercent(subtotal)
                                          ELSE Zero]
                /\ lastOp' = Event("paste", "read")
           ELSE /\ lastOp' = Event("paste", "failed")
                /\ UNCHANGED checkout
        /\ UNCHANGED <<dataVars, syncVars, cartVars, priceVars, enrichVars,
                       placedOrders, notifications>>

\* The onChange of the discount field (line 269): setDiscountCode only.
TypeDiscountCode ==
    \E code \in TypedCodes :
        /\ code # checkout.discountCode
        /\ checkout' = [checkout EXCEPT !.discountCode = code]
        /\ lastOp' = Event("typeCode", "set")
        /\ UNCHANGED <<dataVars, syncVars, cartVars, priceVars, enrichVars,
                       placedOrders, notifications>>

\* handleInputChange (lines 80-83) on the address and instructions fields.
HandleInputChange ==
    \E a \in Addresses \cup {""}, i \in Instructions :
        /\ [address |-> a, instructions |-> i] # checkout.deliveryInfo
        /\ checkout' = [checkout EXCEPT
              !.deliveryInfo = [address |-> a, instructions |-> i]]
        /\ lastOp' = Event("input", "set")
        /\ UNCHANGED <<dataVars, syncVars, cartVars, priceVars, enrichVars,
                       placedOrders, notifications>>

\* lines 134-139: the items of the order
OrderItems(items) ==
    [i \in 1..Len(items) |->
        [product_id |-> items[i].id, variant_id |-> items[i].variant_id,
         quantity |-> items[i].quantity]]

\* lines 143-151: the row handlePlaceOrder inserts
PlacedOrder(uid, info, items, total, created_at) ==
    [row |-> InsertedOrder(uid, info.address, info.instructions, created_at),
     items |-> OrderItems(items),
     total_price |-> total]

\* A handler that clears the cart whatever the insert answered.
CartAfterInsertAlwaysCleared(inserted, items) ==
    cartReducer(items, [type |-> "CLEAR_CART"])

\* lines 154-171: clearCart() is called in the else branch of orderError only
CartAfterInsert(inserted, items) ==
    IF inserted THEN cartReducer(items, [type |-> "CLEAR_CART"]) ELSE items

\* handlePlaceOrder (lines 114-173).  Without a session the handler prompts
\* and signs up; user is the value the render captured, so the test of line
\* 132 still sees no user after a successful sign-up, whose session arrives
\* through onAuthStateChange.  After a successful insert navigate('/orders')
\* unmounts the page; its state is that of a new mount when it is opened
\* again.
HandlePlaceOrder ==
    /\ IF user = NoUser
       THEN \E answered \in BOOLEAN, created \in BOOLEAN :
              /\ IF ~answered
                 THEN /\ lastOp' = Event("placeOrder", "cancelled")
                      /\ UNCHANGED <<user, alerts, channels, feedDue>>
                 ELSE IF ~created
                 THEN /\ lastOp' = Event("placeOrder", "signUpFailed")
                      /\ alerts' = "Account creation failed"
                      /\ UNCHANGED <<user, channels, feedDue>>
                 ELSE /\ lastOp' = Event("placeOrder", "skipped")
                      /\ \E u \in Users \cup {NoUser} : user' = u
                      /\ channels' = RunEffects(channels, views, orderId, user,
                                                views, orderId, user')
                      /\ feedDue' = FALSE
                      /\ UNCHANGED alerts
              /\ UNCHANGED <<cartVars, checkoutVars>>
       ELSE IF checkout.deliveryInfo.address = ""
       THEN /\ lastOp' = Event("placeOrder", "skipped")
            /\ UNCHANGED <<user, alerts, channels, feedDue, cartVars,
                           checkoutVars>>
       ELSE \E inserted \in BOOLEAN, notified \in BOOLEAN :
              /\ inserted => Len(placedOrders) < MaxOrders
              /\ cart' = CartAfterInsert(inserted, cart)
              /\ subtotal' = Subtotal(cart')
              /\ IF inserted
                 THEN /\ placedOrders' = Append(placedOrders,
                            PlacedOrder(user, checkout.deliveryInfo, cart,
                                discountedTotal(subtotal,
                                                checkout.appliedDiscount),
                                now))
                      /\ notifications' =
                            IF notified THEN notifications + 1
                            ELSE notifications
                      /\ alerts' = "Order placed! Call 0725600710."
                      /\ checkout' = MountedCheckout
                      /\ lastOp' = Event("placeOrder",
                                         IF notified THEN "placed"
                                         ELSE "placedUnnotified")
                 ELSE /\ alerts' = "Order creation failed"
                      /\ lastOp' = Event("placeOrder", "insertFailed")
                      /\ UNCHANGED checkoutVars
              /\ UNCHANGED <<user, channels, feedDue>>
    /\ UNCHANGED <<stored, order, fetchedOrder, queryError, fetching, inflight,
                   now, calls, views, orderId, priceVars, enrichVars>>

\* The carts the page can be opened with: what the reducer makes of one or
\* two ADD_ITEMs.
CheckoutCarts ==
    LET Add(items, payload) ==
            cartReducer(items, [type |-> "ADD_ITEM", payload |-> payload])
        first == {CartItem("p1", 100, q, ts, "v1") :
                    q \in {1, 5},
                    ts \in {<<>>, <<Tier(2, 95), Tier(5, 90)>>}}
    IN {<<>>}
       \cup {Add(<<>>, a) : a \in first}
       \cup {Add(Add(<<>>, a), CartItem("p2", 100, 3, <<>>, "v2")) : a \in first}

InitCheckout ==
    /\ stored = InsertedOrder("u1", "X", "I", 1)
    /\ user \in {NoUser, "u1"}
    /\ order = <<>>
    /\ fetchedOrder = <<>>
    /\ queryError = NoError
    /\ fetching = FALSE
    /\ inflight = <<>>
    /\ now = 1
    /\ alerts = NoAlert
    /\ lastOp = NoOp
    /\ calls = 0
    /\ views = {}
    /\ orderId = StoredId
    /\ channels = EmptyBag
    /\ feedDue = FALSE
    /\ cart \in CheckoutCarts
    /\ subtotal = Subtotal(cart)
    /\ PriceIdle
    /\ EnrichIdle
    /\ CheckoutIdle

NextCheckout ==
    \/ HandlePaste
    \/ TypeDiscountCode
    \/ HandleInputChange
    \/ HandlePlaceOrder

SpecCheckout == InitCheckout /\ [][NextCheckout]_vars

\* C29: a discount other than 0 is applied only while the code in the field
\* is SAVE10, and it is then a tenth of the subtotal; while the code is
\* anything else the total of the order is the subtotal.
C29_DiscountOnlyForSave10 ==
    /\ checkout.appliedDiscount # Zero =>
          /\ checkout.discountCode = SAVE10
          /\ checkout.appliedDiscount = TenPercent(subtotal)
    /\ checkout.discountCode # SAVE10 =>
          discountedTotal(subtotal, checkout.appliedDiscount) = Dec(subtotal, 0)

\* C30: handlePlaceOrder empties the cart exactly when its insert into
\* orders succeeded; without a signed-in user, with an empty address or
\* with a failed insert it creates no order and leaves the cart as it was;
\* whether the notification insert succeeded changes neither.
C30_CartClearedIffInserted ==
    [][HandlePlaceOrder =>
          IF Len(placedOrders') = Len(placedOrders) + 1
          THEN /\ user # NoUser
               /\ checkout.deliveryInfo.address # ""
               /\ lastOp'.outcome \in {"placed", "placedUnnotified"}
               /\ cart' = <<>>
               /\ subtotal' = 0
               /\ SubSeq(placedOrders', 1, Len(placedOrders)) = placedOrders
               /\ placedOrders'[Len(placedOrders')].row.user_id = user
               /\ placedOrders'[Len(placedOrders')].items = OrderItems(cart)
          ELSE /\ lastOp'.outcome \notin {"placed", "placedUnnotified"}
               /\ placedOrders' = placedOrders
               /\ notifications' = notifications
               /\ cart' = cart
               /\ subtotal' = subtotal
      ]_vars

\* One order of a cart of two lines is stored although its notification was
\* not, and the cart is empty.
C30_Witness ==
    /\ lastOp = Event("placeOrder", "placedUnnotified")
    /\ cart = <<>>
    /\ Len(placedOrders) = 1
    /\ Len(placedOrders[1].items) = 2
    /\ notifications = 0

====
